---- MODULE Spec2Model ----
(***************************************************************************)
(* Model of src/logger.rs: Logger hierarchies sharing one swappable drain  *)
(* cell, key-value inheritance, the per-call RecordInfo with its lazily    *)
(* evaluated timestamp, and the thread-local scratch buffer TL_BUF.        *)
(*                                                                         *)
(* External collaborators are modelled by their contract:                  *)
(*   - crossbeam's ArcCell: get and set are atomic (ArcCellGet/ArcCellSet);*)
(*   - a drain: while it is invoked it may write into the buffer it was    *)
(*     handed, read or set the record's timestamp, and finally return Ok   *)
(*     or Err;                                                             *)
(*   - chrono::UTC::now(): reads a clock that only moves forward.          *)
(***************************************************************************)
EXTENDS Integers, Sequences, FiniteSets, TLC

\* ---------------------------------------------------------------- bounds
MaxLoggers == 3      \* Logger values ever constructed
MaxShared  == 2      \* Logger values constructed where threads log
MaxArcs    == 2      \* Arcs the callers of set_drain and swap_drain allocate
MaxSharedArcs == 1   \* Arcs they allocate where threads log
MaxClock   == 2      \* the clock runs 0..MaxClock
MaxBuf     == 1      \* bytes one drain invocation writes into TL_BUF
MaxSwaps   == 3      \* swap_drain calls whose arguments and results are kept

\* ---------------------------------------------------------------- inputs
Threads == {1, 2}
Levels  == {"Critical", "Error", "Warning", "Info", "Debug", "Trace"}
Bytes   == {7}

KV1 == <<"service", "x">>
KV2 == <<"req_id", "42">>
KV3 == <<"service", "y">>
\* owned key-values given to new_root / new (KV3 repeats the key of KV1)
OwnedInputs == {<< >>, <<KV1>>, <<KV2, KV3>>}
\* message and borrowed key-values given at the call site
CallInputs == {[msg |-> "hello", values |-> << >>],
               [msg |-> "boom", values |-> <<KV2>>]}

None == << >>
Some(x) == <<x>>

NoArgs == [fn |-> "none"]
NoInfo == [ts |-> None, level |-> "none", msg |-> "none"]
NoInv  == [drain |-> 0]
NoObs  == [prev |-> None, last |-> None, lastAt |-> 0, setBetween |-> FALSE,
           lastSet |-> None, afterSet |-> None, setSinceRead |-> FALSE,
           before |-> None, beforeSet |-> FALSE]
NoRes  == [val |-> "none", wrote |-> 0, ts |-> None, tsSet |-> FALSE]
NoActive == [arc |-> 0, kind |-> "none", by |-> 0]

VARIABLES
  loggers,   \* sequence of Logger structs [drain |-> cell id, values |-> Seq(KV)]
  origin,    \* history: how each Logger was built [how, parent, appended]
  cells,     \* the ArcCells: cell id -> Arc currently stored
  arcs,      \* the Arcs allocated so far: arc id -> drain implementation
  active,    \* history: per root Logger, the Arc last installed in its hierarchy
  installed, \* history: Arcs that a completed new_root/set has put in a cell
  pc,        \* per thread: "idle", "drain" (inside log, drain running), "panicked"
  args,      \* per thread: the logging call being made, and history: the
             \* hierarchy's active drain when the call began
  info,      \* per thread: the RecordInfo of the running log call
  inv,       \* per thread: what the drain invocation was handed
  ninv,      \* per thread: drain invocations made by the current/last call
  buf,       \* per thread: TL_BUF contents, each byte tagged with its writer
  borrowed,  \* per thread: TL_BUF's RefCell is mutably borrowed
  obs,       \* per thread: history of the ts()/set_ts() calls on this
             \* record: the last two values ts() returned, the clock at the
             \* last ts(), the last value given to set_ts, the value ts()
             \* returned after it, and the last value ts() returned in the
             \* thread's previous log call
  res,       \* per thread: what the last drain invocation returned, and
             \* history: how many bytes it had written
  out,       \* per thread: what the last log call gave its caller
  ret,       \* per thread: val, the Arc the last swap_drain returned, and
             \* history: before, the hierarchy's active drain when it began
  clock,     \* chrono::UTC::now()
  hist,      \* history: the swap_drain calls completed, in the order of
             \* their ArcCell::set: [cell, given, val]
  dropped    \* the Loggers dropped, each with, as history, the active
             \* drain of its hierarchy when it was dropped

vars == <<loggers, origin, cells, arcs, active, installed, pc, args, info,
          inv, ninv, buf, borrowed, obs, res, out, ret, clock, hist,
          dropped>>

logVars == <<pc, args, info, inv, ninv, buf, borrowed, obs, res, out>>
hierVars == <<loggers, origin, cells, arcs, active, installed, hist, dropped>>

\* the Loggers that exist
LoggerIds == (1..Len(loggers)) \ {d.logger : d \in dropped}

\* ------------------------------------------------------------ hierarchy
RECURSIVE RootOf(_)
RootOf(l) == IF origin[l].parent = 0 THEN l ELSE RootOf(origin[l].parent)

\* crossbeam ArcCell::get
ArcCellGet(c) == cells[c]

\* ArcCell::set that takes the old Arc out and never puts the new one in
ArcCellSetLeavesEmpty(c, a) == [cells |-> [cells EXCEPT ![c] = 0], old |-> cells[c]]

\* crossbeam ArcCell::set: stores a in cell c and returns the Arc it held
ArcCellSet(c, a) == [cells |-> [cells EXCEPT ![c] = a], old |-> cells[c]]

Init ==
  /\ loggers = << >>
  /\ origin = << >>
  /\ cells = << >>
  /\ arcs = << >>
  /\ active = << >>
  /\ installed = {}
  /\ pc = [t \in Threads |-> "idle"]
  /\ args = [t \in Threads |-> NoArgs]
  /\ info = [t \in Threads |-> NoInfo]
  /\ inv = [t \in Threads |-> NoInv]
  /\ ninv = [t \in Threads |-> 0]
  /\ buf = [t \in Threads |-> << >>]
  /\ borrowed = [t \in Threads |-> FALSE]
  /\ obs = [t \in Threads |-> NoObs]
  /\ res = [t \in Threads |-> NoRes]
  /\ out = [t \in Threads |-> "none"]
  /\ ret = [t \in Threads |-> [val |-> 0, before |-> 0]]
  /\ clock = 0
  /\ hist = << >>
  /\ dropped = {}

\* Logger::new_root handing every root the cell of the first one
NewRootSharedCell(t, values) ==
  /\ pc[t] = "idle"
  /\ Len(loggers) < MaxLoggers
  /\ LET a == Len(arcs) + 1
     IN /\ arcs' = Append(arcs, "discard")
        /\ cells' = IF Len(cells) = 0 THEN <<a>> ELSE cells
        /\ loggers' = Append(loggers, [drain |-> 1, values |-> values])
        /\ origin' = Append(origin, [how |-> "new_root", parent |-> 0,
                                     appended |-> values])
        /\ active' = Append(active, [arc |-> a, kind |-> "init", by |-> 0])
        /\ installed' = installed \cup {a}
  /\ UNCHANGED <<logVars, ret, clock, hist, dropped>>

\* Logger::new_root
NewRoot(t, values) ==
  /\ pc[t] = "idle"
  /\ Len(loggers) < MaxLoggers
  /\ LET a == Len(arcs) + 1
         c == Len(cells) + 1
     IN /\ arcs' = Append(arcs, "discard")
        /\ cells' = Append(cells, a)
        /\ loggers' = Append(loggers, [drain |-> c, values |-> values])
        /\ origin' = Append(origin, [how |-> "new_root", parent |-> 0,
                                     appended |-> values])
        /\ active' = Append(active, [arc |-> a, kind |-> "init", by |-> 0])
        /\ installed' = installed \cup {a}
  /\ UNCHANGED <<logVars, ret, clock, hist, dropped>>

\* Logger::new giving the child a cell of its own that holds the parent's Arc
NewCopiesCell(t, l, values) ==
  /\ pc[t] = "idle"
  /\ l \in LoggerIds
  /\ Len(loggers) < MaxLoggers
  /\ cells' = Append(cells, cells[loggers[l].drain])
  /\ loggers' = Append(loggers, [drain |-> Len(cells) + 1,
                                 values |-> loggers[l].values \o values])
  /\ origin' = Append(origin, [how |-> "new", parent |-> l,
                               appended |-> values])
  /\ active' = Append(active, NoActive)
  /\ UNCHANGED <<arcs, installed, logVars, ret, clock, hist, dropped>>

\* Logger::new dropping the parent's pairs whose key the child gives again
NewShadowing(t, l, values) ==
  /\ pc[t] = "idle"
  /\ l \in LoggerIds
  /\ Len(loggers) < MaxLoggers
  /\ LET keys == {values[i][1] : i \in DOMAIN values}
         kept == SelectSeq(loggers[l].values, LAMBDA kv : kv[1] \notin keys)
     IN loggers' = Append(loggers, [drain |-> loggers[l].drain,
                                    values |-> kept \o values])
  /\ origin' = Append(origin, [how |-> "new", parent |-> l,
                               appended |-> values])
  /\ active' = Append(active, NoActive)
  /\ UNCHANGED <<cells, arcs, installed, logVars, ret, clock, hist, dropped>>

\* Logger::new extending the parent's Vec in place instead of a clone of it
NewExtendsParent(t, l, values) ==
  /\ pc[t] = "idle"
  /\ l \in LoggerIds
  /\ Len(loggers) < MaxLoggers
  /\ LET new_values == loggers[l].values \o values
     IN loggers' = Append([loggers EXCEPT ![l].values = new_values],
                          [drain |-> loggers[l].drain, values |-> new_values])
  /\ origin' = Append(origin, [how |-> "new", parent |-> l,
                               appended |-> values])
  /\ active' = Append(active, NoActive)
  /\ UNCHANGED <<cells, arcs, installed, logVars, ret, clock, hist, dropped>>

\* Logger::new
New(t, l, values) ==
  /\ pc[t] = "idle"
  /\ l \in LoggerIds
  /\ Len(loggers) < MaxLoggers
  /\ LET new_values == loggers[l].values \o values
     IN loggers' = Append(loggers, [drain |-> loggers[l].drain,
                                    values |-> new_values])
  /\ origin' = Append(origin, [how |-> "new", parent |-> l,
                               appended |-> values])
  /\ active' = Append(active, NoActive)
  /\ UNCHANGED <<cells, arcs, installed, logVars, ret, clock, hist, dropped>>

\* #[derive(Clone)] for Logger
Clone(t, l) ==
  /\ pc[t] = "idle"
  /\ l \in LoggerIds
  /\ Len(loggers) < MaxLoggers
  /\ loggers' = Append(loggers, loggers[l])
  /\ origin' = Append(origin, [how |-> "clone", parent |-> l,
                               appended |-> << >>])
  /\ active' = Append(active, NoActive)
  /\ UNCHANGED <<cells, arcs, installed, logVars, ret, clock, hist, dropped>>

\* dropping a Logger: dropping the root drops the cell with it
DropRootFreesCell(t, l) ==
  /\ pc[t] = "idle"
  /\ l \in LoggerIds
  /\ \A u \in Threads : pc[u] = "drain" => args[u].logger # l
  /\ dropped' = dropped \cup {[logger |-> l, active |-> active[RootOf(l)]]}
  /\ cells' = IF origin[l].parent # 0
                THEN cells
                ELSE [cells EXCEPT ![loggers[l].drain] = 0]
  /\ UNCHANGED <<loggers, origin, arcs, active, installed, logVars, ret,
                 clock, hist>>

\* dropping a Logger, which no running log call borrows: its Arc of the
\* cell goes, and with the last Arc the cell and the drain in it
Drop(t, l) ==
  /\ pc[t] = "idle"
  /\ l \in LoggerIds
  /\ \A u \in Threads : pc[u] = "drain" => args[u].logger # l
  /\ dropped' = dropped \cup {[logger |-> l, active |-> active[RootOf(l)]]}
  /\ cells' = IF \E m \in LoggerIds \ {l} : loggers[m].drain = loggers[l].drain
                THEN cells
                ELSE [cells EXCEPT ![loggers[l].drain] = 0]
  /\ UNCHANGED <<loggers, origin, arcs, active, installed, logVars, ret,
                 clock, hist>>

\* Logger::set_drain taking a lock that running log calls on the cell hold
SetDrainWaitsForLogs(t, l, d) ==
  /\ pc[t] = "idle"
  /\ l \in LoggerIds
  /\ \A u \in Threads :
       pc[u] = "drain" => loggers[args[u].logger].drain # loggers[l].drain
  /\ Len(arcs) - Len(cells) < MaxArcs
  /\ LET a == Len(arcs) + 1
     IN /\ arcs' = Append(arcs, d)
        /\ cells' = ArcCellSet(loggers[l].drain, a).cells
        /\ active' = [active EXCEPT ![RootOf(l)] =
                         [arc |-> a, kind |-> "set", by |-> l]]
        /\ installed' = installed \cup {a}
  /\ UNCHANGED <<loggers, origin, logVars, ret, clock, hist, dropped>>

\* Logger::set_drain
SetDrain(t, l, d) ==
  /\ pc[t] = "idle"
  /\ l \in LoggerIds
  /\ Len(arcs) - Len(cells) < MaxArcs
  /\ LET a == Len(arcs) + 1
     IN /\ arcs' = Append(arcs, d)
        /\ cells' = ArcCellSet(loggers[l].drain, a).cells
        /\ active' = [active EXCEPT ![RootOf(l)] =
                         [arc |-> a, kind |-> "set", by |-> l]]
        /\ installed' = installed \cup {a}
  /\ UNCHANGED <<loggers, origin, logVars, ret, clock, hist, dropped>>

\* Logger::swap_drain handing back the previous Arc and dropping the one it
\* was given
SwapDrainKeepsOld(t, l, a, d) ==
  /\ pc[t] = "idle"
  /\ l \in LoggerIds
  /\ \/ /\ a = Len(arcs) + 1
        /\ Len(arcs) - Len(cells) < MaxArcs
        /\ arcs' = Append(arcs, d)
     \/ a # 0 /\ a = ret[t].val /\ arcs' = arcs
  /\ ret' = [ret EXCEPT ![t] = [val |-> ArcCellGet(loggers[l].drain),
                                before |-> active[RootOf(l)].arc]]
  /\ active' = [active EXCEPT ![RootOf(l)] =
                   [arc |-> a, kind |-> "swap", by |-> l]]
  /\ installed' = installed \cup {a}
  /\ UNCHANGED <<loggers, origin, cells, logVars, clock, dropped>>

\* Logger::swap_drain handing back the Arc it was given
SwapDrainReturnsNew(t, l, a, d) ==
  /\ pc[t] = "idle"
  /\ l \in LoggerIds
  /\ \/ /\ a = Len(arcs) + 1
        /\ Len(arcs) - Len(cells) < MaxArcs
        /\ arcs' = Append(arcs, d)
     \/ a # 0 /\ a = ret[t].val /\ arcs' = arcs
  /\ cells' = ArcCellSet(loggers[l].drain, a).cells
  /\ ret' = [ret EXCEPT ![t] = [val |-> a, before |-> active[RootOf(l)].arc]]
  /\ active' = [active EXCEPT ![RootOf(l)] =
                   [arc |-> a, kind |-> "swap", by |-> l]]
  /\ installed' = installed \cup {a}
  /\ UNCHANGED <<loggers, origin, logVars, clock, dropped>>

\* Logger::swap_drain losing the previous Arc and handing back a new no-op
\* drain
SwapDrainDropsOld(t, l, a, d) ==
  /\ pc[t] = "idle"
  /\ l \in LoggerIds
  /\ \/ /\ a = Len(arcs) + 1
        /\ Len(arcs) - Len(cells) < MaxArcs
        /\ arcs' = Append(Append(arcs, d), "discard")
        /\ ret' = [ret EXCEPT ![t] = [val |-> a + 1,
                                      before |-> active[RootOf(l)].arc]]
     \/ /\ a # 0 /\ a = ret[t].val
        /\ arcs' = Append(arcs, "discard")
        /\ ret' = [ret EXCEPT ![t] = [val |-> Len(arcs) + 1,
                                      before |-> active[RootOf(l)].arc]]
  /\ cells' = ArcCellSet(loggers[l].drain, a).cells
  /\ active' = [active EXCEPT ![RootOf(l)] =
                   [arc |-> a, kind |-> "swap", by |-> l]]
  /\ installed' = installed \cup {a}
  /\ UNCHANGED <<loggers, origin, logVars, clock, dropped>>

\* Logger::swap_drain; the caller passes an Arc it holds: a fresh one
\* (a = Len(arcs) + 1, wrapping d) or the one its earlier swap returned
SwapDrain(t, l, a, d) ==
  /\ pc[t] = "idle"
  /\ l \in LoggerIds
  /\ \/ /\ a = Len(arcs) + 1
        /\ Len(arcs) - Len(cells) < MaxArcs
        /\ arcs' = Append(arcs, d)
     \/ a # 0 /\ a = ret[t].val /\ arcs' = arcs
  /\ LET r == ArcCellSet(loggers[l].drain, a)
     IN /\ cells' = r.cells
        /\ ret' = [ret EXCEPT ![t] = [val |-> r.old,
                                      before |-> active[RootOf(l)].arc]]
  /\ active' = [active EXCEPT ![RootOf(l)] =
                   [arc |-> a, kind |-> "swap", by |-> l]]
  /\ installed' = installed \cup {a}
  /\ UNCHANGED <<loggers, origin, logVars, clock, dropped>>

\* Logger::swap_drain with the call kept in hist
SwapDrainRecorded(t, l, a, d) ==
  /\ Len(hist) < MaxSwaps
  /\ SwapDrain(t, l, a, d)
  /\ hist' = Append(hist, [cell |-> loggers[l].drain, given |-> a,
                           val |-> ret'[t].val])

\* ------------------------------------------------------------ RecordInfo
\* RecordInfo::new
RecordInfoNew(level, msg) == [ts |-> None, level |-> level, msg |-> msg]

\* RecordInfo::ts reading the clock on every call
RecordInfoTsNoMemo(i, now) == [val |-> now, info |-> [i EXCEPT !.ts = Some(now)]]

\* RecordInfo::ts handing back what the field held before it stored now
RecordInfoTsReturnsOld(i, now) ==
  IF i.ts = None
    THEN [val |-> 0, info |-> [i EXCEPT !.ts = Some(now)]]
    ELSE [val |-> i.ts[1], info |-> i]

\* RecordInfo::ts: the value returned and the RecordInfo afterwards
RecordInfoTs(i, now) ==
  IF i.ts = None
    THEN [val |-> now, info |-> [i EXCEPT !.ts = Some(now)]]
    ELSE [val |-> i.ts[1], info |-> i]

\* RecordInfo::set_ts keeping a timestamp that is already there
RecordInfoSetTsIfNone(i, ts) == IF i.ts = None THEN [i EXCEPT !.ts = Some(ts)] ELSE i

\* RecordInfo::set_ts
RecordInfoSetTs(i, ts) == [i EXCEPT !.ts = Some(ts)]

\* -------------------------------------------------------------- logging
\* TL_BUF as one static buffer of the process
TlBufStatic(t) == 1

\* TL_BUF.with: the buffer a thread's log call reaches
TlBuf(t) == t

\* TL_BUF as a cell that does not check its borrows
AlreadyBorrowedUnchecked(t) == FALSE

\* buf.borrow_mut() finds the RefCell of the thread's buffer borrowed
AlreadyBorrowed(t) == borrowed[TlBuf(t)]

\* Logger::log up to the point where the drain is running: RecordInfo::new,
\* TL_BUF.with, borrow_mut, self.drain.get(), and the call of the drain
Log(t, l, fn, lvl, msg, values) ==
  /\ pc[t] = "idle"
  /\ l \in LoggerIds
  /\ args' = [args EXCEPT ![t] = [fn |-> fn, logger |-> l, lvl |-> lvl,
                                  msg |-> msg, values |-> values,
                                  active |-> active[RootOf(l)]]]
  /\ obs' = [obs EXCEPT ![t] = [NoObs EXCEPT !.before = res[t].ts,
                                             !.beforeSet = res[t].tsSet]]
  /\ res' = [res EXCEPT ![t] = NoRes]
  /\ out' = [out EXCEPT ![t] = "none"]
  /\ IF AlreadyBorrowed(t)
       THEN \* borrow_mut on a RefCell that is already borrowed panics
            /\ pc' = [pc EXCEPT ![t] = "panicked"]
            /\ ninv' = [ninv EXCEPT ![t] = 0]
            /\ UNCHANGED <<info, inv, borrowed>>
       ELSE /\ info' = [info EXCEPT ![t] = RecordInfoNew(lvl, msg)]
            /\ borrowed' = [borrowed EXCEPT ![TlBuf(t)] = TRUE]
            /\ inv' = [inv EXCEPT ![t] =
                         [drain |-> ArcCellGet(loggers[l].drain),
                          buf |-> TlBuf(t),
                          startLen |-> Len(buf[TlBuf(t)]),
                          level |-> lvl, msg |-> msg,
                          values |-> loggers[l].values,
                          kvs |-> values]]
            /\ ninv' = [ninv EXCEPT ![t] = 1]
            /\ pc' = [pc EXCEPT ![t] = "drain"]
  /\ UNCHANGED <<hierVars, buf, ret, clock>>

\* Logger::critical
Critical(t, l, msg, values) == Log(t, l, "critical", "Critical", msg, values)
\* Logger::error
Error(t, l, msg, values) == Log(t, l, "error", "Error", msg, values)
\* Logger::warn passing the level of Logger::error
WarnAsError(t, l, msg, values) == Log(t, l, "warn", "Error", msg, values)

\* Logger::warn
Warn(t, l, msg, values) == Log(t, l, "warn", "Warning", msg, values)
\* Logger::info
Info(t, l, msg, values) == Log(t, l, "info", "Info", msg, values)
\* Logger::debug
Debug(t, l, msg, values) == Log(t, l, "debug", "Debug", msg, values)
\* Logger::trace
Trace(t, l, msg, values) == Log(t, l, "trace", "Trace", msg, values)

\* the running drain writes a byte into the buffer it was handed
DrainWrite(t, b) ==
  /\ pc[t] = "drain"
  /\ Len(buf[inv[t].buf]) < inv[t].startLen + MaxBuf
  /\ buf' = [buf EXCEPT ![inv[t].buf] = Append(@, [by |-> t, byte |-> b])]
  /\ UNCHANGED <<hierVars, pc, args, info, inv, ninv, borrowed, obs, res,
                 out, ret, clock>>

\* the running drain calls RecordInfo::ts on the record it was handed
DrainTs(t) ==
  /\ pc[t] = "drain"
  /\ LET r == RecordInfoTs(info[t], clock)
     IN /\ info' = [info EXCEPT ![t] = r.info]
        /\ obs' = [obs EXCEPT ![t] =
                     [prev |-> @.last, last |-> Some(r.val), lastAt |-> clock,
                      setBetween |-> @.setSinceRead,
                      lastSet |-> @.lastSet,
                      before |-> @.before, beforeSet |-> @.beforeSet,
                      afterSet |-> IF @.lastSet = None THEN None
                                   ELSE Some(r.val),
                      setSinceRead |-> FALSE]]
  /\ UNCHANGED <<hierVars, pc, args, inv, ninv, buf, borrowed, res, out,
                 ret, clock>>

\* the running drain calls RecordInfo::set_ts on the record it was handed
DrainSetTs(t, ts) ==
  /\ pc[t] = "drain"
  /\ info' = [info EXCEPT ![t] = RecordInfoSetTs(info[t], ts)]
  /\ obs' = [obs EXCEPT ![t] = [@ EXCEPT !.lastSet = Some(ts),
                                         !.afterSet = None,
                                         !.setSinceRead = TRUE]]
  /\ UNCHANGED <<hierVars, pc, args, inv, ninv, buf, borrowed, res, out,
                 ret, clock>>

\* Logger::log unwrapping the drain's result
LogReturnUnwrap(t, r) ==
  /\ pc[t] = "drain"
  /\ res' = [res EXCEPT ![t] = [val |-> r,
                                wrote |-> Len(buf[inv[t].buf]) - inv[t].startLen,
                                ts |-> obs[t].last,
                                tsSet |-> obs[t].lastSet # None]]
  /\ borrowed' = [borrowed EXCEPT ![inv[t].buf] = FALSE]
  /\ IF r = "Err"
       THEN /\ pc' = [pc EXCEPT ![t] = "panicked"]
            /\ out' = [out EXCEPT ![t] = "Err"]
            /\ buf' = buf
       ELSE /\ pc' = [pc EXCEPT ![t] = "idle"]
            /\ out' = [out EXCEPT ![t] = "unit"]
            /\ buf' = [buf EXCEPT ![inv[t].buf] = << >>]
  /\ args' = [args EXCEPT ![t] = NoArgs]
  /\ info' = [info EXCEPT ![t] = NoInfo]
  /\ inv' = [inv EXCEPT ![t] = NoInv]
  /\ obs' = [obs EXCEPT ![t] = NoObs]
  /\ UNCHANGED <<hierVars, ninv, ret, clock>>

\* Logger::log clearing the buffer only when the drain succeeded
LogReturnClearOnOk(t, r) ==
  /\ pc[t] = "drain"
  /\ res' = [res EXCEPT ![t] = [val |-> r,
                                wrote |-> Len(buf[inv[t].buf]) - inv[t].startLen,
                                ts |-> obs[t].last,
                                tsSet |-> obs[t].lastSet # None]]
  /\ buf' = IF r = "Ok" THEN [buf EXCEPT ![inv[t].buf] = << >>] ELSE buf
  /\ borrowed' = [borrowed EXCEPT ![inv[t].buf] = FALSE]
  /\ out' = [out EXCEPT ![t] = "unit"]
  /\ pc' = [pc EXCEPT ![t] = "idle"]
  /\ args' = [args EXCEPT ![t] = NoArgs]
  /\ info' = [info EXCEPT ![t] = NoInfo]
  /\ inv' = [inv EXCEPT ![t] = NoInv]
  /\ obs' = [obs EXCEPT ![t] = NoObs]
  /\ UNCHANGED <<hierVars, ninv, ret, clock>>

\* the rest of Logger::log: the drain returns r, `let _ =` drops it,
\* buf.clear(), the RefMut is dropped, log returns ()
LogReturn(t, r) ==
  /\ pc[t] = "drain"
  /\ res' = [res EXCEPT ![t] = [val |-> r,
                                wrote |-> Len(buf[inv[t].buf]) - inv[t].startLen,
                                ts |-> obs[t].last,
                                tsSet |-> obs[t].lastSet # None]]
  /\ buf' = [buf EXCEPT ![inv[t].buf] = << >>]
  /\ borrowed' = [borrowed EXCEPT ![inv[t].buf] = FALSE]
  /\ out' = [out EXCEPT ![t] = "unit"]
  /\ pc' = [pc EXCEPT ![t] = "idle"]
  \* the RecordInfo and the borrowed arguments do not outlive the call
  /\ args' = [args EXCEPT ![t] = NoArgs]
  /\ info' = [info EXCEPT ![t] = NoInfo]
  /\ inv' = [inv EXCEPT ![t] = NoInv]
  /\ obs' = [obs EXCEPT ![t] = NoObs]
  /\ UNCHANGED <<hierVars, ninv, ret, clock>>

\* the running drain panics: Logger::log is unwound, which drops the RefMut
\* and the RecordInfo and skips buf.clear()
DrainPanic(t) ==
  /\ pc[t] = "drain"
  /\ res' = [res EXCEPT ![t] = [val |-> "panic",
                                wrote |-> Len(buf[inv[t].buf]) - inv[t].startLen,
                                ts |-> obs[t].last,
                                tsSet |-> obs[t].lastSet # None]]
  /\ borrowed' = [borrowed EXCEPT ![inv[t].buf] = FALSE]
  /\ pc' = [pc EXCEPT ![t] = "panicked"]
  /\ args' = [args EXCEPT ![t] = NoArgs]
  /\ info' = [info EXCEPT ![t] = NoInfo]
  /\ inv' = [inv EXCEPT ![t] = NoInv]
  /\ obs' = [obs EXCEPT ![t] = NoObs]
  /\ UNCHANGED <<hierVars, ninv, buf, out, ret, clock>>

\* the running drain calls Logger::log through Logger l on its own thread:
\* the inner call's borrow_mut panics while the outer call holds the RefMut,
\* and the panic unwinds both calls
DrainLog(t, l) ==
  /\ pc[t] = "drain"
  /\ l \in LoggerIds
  /\ IF AlreadyBorrowed(t)
       THEN /\ res' = [res EXCEPT ![t] =
                         [val |-> "BorrowMutError",
                          wrote |-> Len(buf[inv[t].buf]) - inv[t].startLen,
                          ts |-> obs[t].last,
                          tsSet |-> obs[t].lastSet # None]]
            /\ borrowed' = [borrowed EXCEPT ![inv[t].buf] = FALSE]
            /\ pc' = [pc EXCEPT ![t] = "panicked"]
            /\ args' = [args EXCEPT ![t] = NoArgs]
            /\ info' = [info EXCEPT ![t] = NoInfo]
            /\ inv' = [inv EXCEPT ![t] = NoInv]
            /\ obs' = [obs EXCEPT ![t] = NoObs]
            /\ UNCHANGED ninv
       ELSE \* the inner call gets the buffer too and invokes its drain
            /\ inv' = [inv EXCEPT ![t] =
                         [drain |-> ArcCellGet(loggers[l].drain),
                          buf |-> TlBuf(t),
                          startLen |-> Len(buf[TlBuf(t)]),
                          level |-> inv[t].level, msg |-> inv[t].msg,
                          values |-> loggers[l].values,
                          kvs |-> inv[t].kvs]]
            /\ ninv' = [ninv EXCEPT ![t] = @ + 1]
            /\ UNCHANGED <<pc, args, info, obs, res, borrowed>>
  /\ UNCHANGED <<hierVars, buf, out, ret, clock>>

\* time passes
Tick ==
  /\ clock < MaxClock
  /\ clock' = clock + 1
  /\ UNCHANGED <<hierVars, logVars, ret>>

\* ------------------------------------------------------ specifications
\* Each specification exercises the operations its claims are about, with
\* the callers' inputs drawn from small sets; the operations it leaves out
\* do not write the variables those claims read.

\* Spec: two threads share the drain cells: Loggers are built, set_drain
\* and swap_drain replace the drain, and log calls get it and run it.
Next ==
  \/ \E t \in Threads : Len(loggers) < MaxShared /\ NewRoot(t, <<KV1>>)
  \/ \E t \in Threads, l \in LoggerIds :
        Len(loggers) < MaxShared /\ New(t, l, <<KV2>>)
  \/ \E t \in Threads, l \in LoggerIds :
        Len(loggers) < MaxShared /\ Clone(t, l)
  \/ \E t \in Threads, l \in LoggerIds :
        Len(arcs) - Len(cells) < MaxSharedArcs /\ SetDrain(t, l, "D1")
  \/ \E t \in Threads, l \in LoggerIds : \E a \in {Len(arcs) + 1, ret[t].val} :
        /\ a = Len(arcs) + 1 => Len(arcs) - Len(cells) < MaxSharedArcs
        /\ SwapDrain(t, l, a, "D1")
        /\ UNCHANGED hist
  \/ \E t \in Threads, l \in LoggerIds : Error(t, l, "boom", << >>)
  \/ \E t \in Threads : LogReturn(t, "Ok")

Spec == Init /\ [][Next]_vars

\* SpecBuf: two threads log through the Loggers of one or more hierarchies;
\* the running drain writes into the buffer it was handed and succeeds or
\* fails.
NextBuf ==
  \/ \E t \in Threads : Len(loggers) < MaxShared /\ NewRoot(t, <<KV1>>)
  \/ \E t \in Threads, l \in LoggerIds :
        Len(loggers) < MaxShared /\ New(t, l, <<KV2>>)
  \/ \E t \in Threads, l \in LoggerIds : Error(t, l, "boom", << >>)
  \/ \E t \in Threads, l \in LoggerIds : Log(t, l, "log", "Debug", "hello", <<KV2>>)
  \/ \E t \in Threads, b \in Bytes : DrainWrite(t, b)
  \/ \E t \in Threads, r \in {"Ok", "Err"} : LogReturn(t, r)

SpecBuf == Init /\ [][NextBuf]_vars

\* SpecWait: set_drain and swap_drain on the hierarchy of one root while log
\* calls through its Loggers are running.
NextWait ==
  \/ Len(loggers) = 0 /\ NewRoot(1, <<KV1>>)
  \/ \E l \in LoggerIds : Len(loggers) < MaxShared /\ New(1, l, <<KV2>>)
  \/ \E t \in Threads, l \in LoggerIds :
        Len(arcs) - Len(cells) < MaxSharedArcs /\ SetDrain(t, l, "D1")
  \/ \E t \in Threads, l \in LoggerIds : \E a \in {Len(arcs) + 1, ret[t].val} :
        /\ a = Len(arcs) + 1 => Len(arcs) - Len(cells) < MaxSharedArcs
        /\ SwapDrain(t, l, a, "D1")
        /\ UNCHANGED hist
  \/ \E t \in Threads, l \in LoggerIds : Error(t, l, "boom", << >>)
  \/ \E t \in Threads : LogReturn(t, "Ok")

SpecWait == Init /\ [][NextWait]_vars

\* SpecSwap: two threads swap the drains of one or two hierarchies, each
\* passing a new drain or the one its last swap handed back.
NextSwap ==
  \/ \E t \in Threads : Len(loggers) < MaxShared /\ NewRoot(t, <<KV1>>)
  \/ \E t \in Threads, l \in LoggerIds :
        Len(loggers) < MaxShared /\ New(t, l, <<KV2>>)
  \/ \E t \in Threads, l \in LoggerIds : \E a \in {Len(arcs) + 1, ret[t].val} :
        SwapDrainRecorded(t, l, a, "D1")

SpecSwap == Init /\ [][NextSwap]_vars

\* SpecDrop: thread 1 builds the Loggers of a hierarchy, sets its drain and
\* drops Loggers, the root among them, while both threads log.
NextDrop ==
  \/ Len(loggers) = 0 /\ NewRoot(1, <<KV1>>)
  \/ \E l \in LoggerIds : New(1, l, <<KV2>>)
  \/ \E l \in LoggerIds : Clone(1, l)
  \/ \E l \in LoggerIds :
        Len(arcs) - Len(cells) < MaxSharedArcs /\ SetDrain(1, l, "D1")
  \/ \E l \in LoggerIds : Drop(1, l)
  \/ \E t \in Threads, l \in LoggerIds : Error(t, l, "boom", << >>)
  \/ \E t \in Threads : LogReturn(t, "Ok")

SpecDrop == Init /\ [][NextDrop]_vars

\* SpecFault: as SpecBuf, with drains that panic or log on their own thread.
NextFault ==
  \/ \E t \in Threads : Len(loggers) < MaxShared /\ NewRoot(t, <<KV1>>)
  \/ \E t \in Threads, l \in LoggerIds : Error(t, l, "boom", << >>)
  \/ \E t \in Threads, b \in Bytes : DrainWrite(t, b)
  \/ \E t \in Threads : DrainPanic(t)
  \/ \E t \in Threads, l \in LoggerIds : DrainLog(t, l)
  \/ \E t \in Threads, r \in {"Ok", "Err"} : LogReturn(t, r)

SpecFault == Init /\ [][NextFault]_vars

\* SpecDerive: Loggers are built from each other with varied key-values.
NextDerive ==
  \/ \E v \in OwnedInputs : NewRoot(1, v)
  \/ \E l \in LoggerIds, v \in OwnedInputs : New(1, l, v)
  \/ \E l \in LoggerIds : Clone(1, l)

SpecDerive == Init /\ [][NextDerive]_vars

\* SpecKV: one thread uses every logging entry point, with varied arguments,
\* on Loggers with varied key-values.
NextKV ==
  \/ \E v \in OwnedInputs : Len(loggers) < MaxShared /\ NewRoot(1, v)
  \/ \E l \in LoggerIds, v \in OwnedInputs :
        Len(loggers) < MaxShared /\ New(1, l, v)
  \/ \E l \in LoggerIds : Len(loggers) < MaxShared /\ Clone(1, l)
  \/ \E l \in LoggerIds :
        Len(arcs) - Len(cells) < MaxSharedArcs /\ SetDrain(1, l, "D1")
  \/ \E l \in LoggerIds, lvl \in Levels, c \in CallInputs :
        Log(1, l, "log", lvl, c.msg, c.values)
  \/ \E l \in LoggerIds, c \in CallInputs : Critical(1, l, c.msg, c.values)
  \/ \E l \in LoggerIds, c \in CallInputs : Error(1, l, c.msg, c.values)
  \/ \E l \in LoggerIds, c \in CallInputs : Warn(1, l, c.msg, c.values)
  \/ \E l \in LoggerIds, c \in CallInputs : Info(1, l, c.msg, c.values)
  \/ \E l \in LoggerIds, c \in CallInputs : Debug(1, l, c.msg, c.values)
  \/ \E l \in LoggerIds, c \in CallInputs : Trace(1, l, c.msg, c.values)
  \/ \E r \in {"Ok", "Err"} : LogReturn(1, r)

SpecKV == Init /\ [][NextKV]_vars

\* SpecRec: one thread logs while the clock advances and the running drain
\* reads and sets the timestamp of the RecordInfo it was handed.
NextRec ==
  \/ NewRoot(1, <<KV1>>)
  \/ \E l \in LoggerIds, c \in CallInputs : Info(1, l, c.msg, c.values)
  \/ \E l \in LoggerIds : Log(1, l, "log", "Trace", "hello", << >>)
  \/ DrainTs(1)
  \/ \E ts \in 0..MaxClock : DrainSetTs(1, ts)
  \/ \E r \in {"Ok", "Err"} : LogReturn(1, r)
  \/ Tick

SpecRec == Init /\ [][NextRec]_vars

\* --------------------------------------------------------------- claims
\* self.drain.get() made through Logger l
Observed(l) == ArcCellGet(loggers[l].drain)

\* the key-values a Logger is built to have: what its ancestors were given,
\* root first, followed by what it was given itself
RECURSIVE Expected(_)
Expected(l) ==
  IF origin[l].parent = 0 THEN origin[l].appended
  ELSE Expected(origin[l].parent) \o origin[l].appended

IsPrefix(p, q) == Len(p) <= Len(q) /\ SubSeq(q, 1, Len(p)) = p

\* the level each entry point logs at; log itself takes the caller's level
EntryLevel(fn, lvl) ==
  CASE fn = "critical" -> "Critical"
    [] fn = "error"    -> "Error"
    [] fn = "warn"     -> "Warning"
    [] fn = "info"     -> "Info"
    [] fn = "debug"    -> "Debug"
    [] fn = "trace"    -> "Trace"
    [] OTHER           -> lvl

\* C1: while the last drain put into a hierarchy came from set_drain, a get
\* through every Logger of that hierarchy returns that drain, and a log call
\* begun then through any of them invokes it, whichever Logger of the
\* hierarchy set_drain was called on and whenever the Loggers were built.
C1_SetDrainHierarchyWide ==
  /\ \A l \in LoggerIds :
       active[RootOf(l)].kind = "set" => Observed(l) = active[RootOf(l)].arc
  /\ \A t \in Threads :
       (pc[t] = "drain" /\ args[t].active.kind = "set")
         => inv[t].drain = args[t].active.arc

\* a log call through the root is running the drain that set_drain installed
\* through a child built after the root
C1_Witness ==
  \E t \in Threads, l1 \in LoggerIds, l2 \in LoggerIds :
    /\ l2 < l1
    /\ RootOf(l1) = l2
    /\ pc[t] = "drain"
    /\ args[t].logger = l2
    /\ args[t].active = [arc |-> inv[t].drain, kind |-> "set", by |-> l1]
    /\ arcs[inv[t].drain] = "D1"
    /\ Observed(l1) = inv[t].drain

\* C2: every Logger's key-values are the root's followed, in order, by what
\* each derive on the way appended; the parent's sequence is a prefix of the
\* child's and no pair is dropped, duplicate keys included.
C2_ValuesAreChainOfAppends ==
  \A l \in LoggerIds :
    /\ loggers[l].values = Expected(l)
    /\ origin[l].parent # 0 =>
         /\ IsPrefix(loggers[origin[l].parent].values, loggers[l].values)
         /\ Len(loggers[l].values) =
              Len(loggers[origin[l].parent].values) + Len(origin[l].appended)

\* a grandchild whose appended pairs repeat a key of the root
C2_Witness ==
  /\ Len(loggers) = 3
  /\ origin[2] = [how |-> "new", parent |-> 1, appended |-> <<KV1>>]
  /\ origin[3] = [how |-> "new", parent |-> 2, appended |-> <<KV2, KV3>>]
  /\ loggers[1].values = <<KV1>>
  /\ loggers[3].values = <<KV1, KV1, KV2, KV3>>

\* C3: swap_drain returns the drain that was the hierarchy's active drain when
\* it was called, and while the last drain put into a hierarchy came from
\* swap_drain a get through every Logger of the hierarchy returns that drain.
C3_SwapReturnsPrevious ==
  /\ \A t \in Threads : ret[t].val # 0 => ret[t].val = ret[t].before
  /\ \A l \in LoggerIds :
       active[RootOf(l)].kind = "swap" => Observed(l) = active[RootOf(l)].arc
  /\ \A t \in Threads :
       (pc[t] = "drain" /\ args[t].active.kind = "swap")
         => inv[t].drain = args[t].active.arc

\* a swap through one Logger returned the no-op drain of the root, and a log
\* call through another Logger of the hierarchy is running the new drain
C3_Witness ==
  \E t \in Threads, u \in Threads, l1 \in LoggerIds, l2 \in LoggerIds :
    /\ l1 # l2
    /\ RootOf(l1) = RootOf(l2)
    /\ ret[t].val # 0
    /\ arcs[ret[t].val] = "discard"
    /\ active[RootOf(l1)].kind = "swap"
    /\ active[RootOf(l1)].by = l1
    /\ pc[u] = "drain"
    /\ args[u].logger = l2
    /\ inv[u].drain = active[RootOf(l1)].arc
    /\ arcs[inv[u].drain] = "D1"

\* C4: a logging call invokes the hierarchy's current drain exactly once, with
\* the level of the entry point used, the caller's message, the Logger's
\* whole inherited key-value sequence and the call-site key-values.
C4_OneInvocationWithCallArguments ==
  \A t \in Threads :
    /\ pc[t] = "drain" =>
         /\ ninv[t] = 1
         /\ inv[t].drain = args[t].active.arc
         /\ inv[t].level = EntryLevel(args[t].fn, args[t].lvl)
         /\ info[t].level = EntryLevel(args[t].fn, args[t].lvl)
         /\ inv[t].msg = args[t].msg
         /\ info[t].msg = args[t].msg
         /\ inv[t].values = Expected(args[t].logger)
         /\ inv[t].kvs = args[t].values
    /\ out[t] = "unit" => ninv[t] = 1

\* warn("boom", [KV2]) on a child is running the drain set on the hierarchy
C4_Witness ==
  /\ pc[1] = "drain"
  /\ args[1].fn = "warn"
  /\ inv[1].level = "Warning"
  /\ inv[1].msg = "boom"
  /\ inv[1].kvs = <<KV2>>
  /\ inv[1].values = <<KV1, KV2, KV3>>
  /\ origin[args[1].logger].parent # 0
  /\ arcs[inv[1].drain] = "D1"
  /\ ninv[1] = 1

\* C5: a log call whose drain returned a failure has returned () to its
\* caller like any other, and no step of a log call changes a Logger or a
\* drain cell.
C5_FailureAbsorbed ==
  /\ [](\A t \in Threads :
          res[t].val = "Err" => (pc[t] = "idle" /\ out[t] = "unit"))
  /\ [][\A t \in Threads :
          ((pc[t] = "drain" \/ pc'[t] = "drain") /\ pc'[t] # pc[t])
            => (loggers' = loggers /\ cells' = cells /\ active' = active)]_vars

\* a log call has returned after its drain failed
C5_Witness ==
  \E t \in Threads :
    res[t].val = "Err" /\ pc[t] = "idle" /\ out[t] = "unit" /\ ninv[t] = 1

\* C6: outside a drain invocation the thread's buffer is empty, and every
\* drain invocation was handed an empty buffer.
C6_BufferEmptyBetweenCalls ==
  \A t \in Threads :
    /\ pc[t] = "idle" => Len(buf[t]) = 0
    /\ pc[t] = "drain" => inv[t].startLen = 0

\* a log call has returned after its drain wrote into the buffer and failed
C6_Witness ==
  \E t \in Threads :
    /\ pc[t] = "idle"
    /\ res[t].val = "Err"
    /\ res[t].wrote = MaxBuf
    /\ Len(buf[t]) = 0

\* C7: no thread has panicked, every drain invocation was handed the buffer
\* of the thread it runs on, and every byte in a thread's buffer was written
\* by an invocation on that thread.
C7_BuffersArePerThread ==
  \A t \in Threads :
    /\ pc[t] # "panicked"
    /\ pc[t] = "drain" => inv[t].buf = t
    /\ \A i \in DOMAIN buf[t] : buf[t][i].by = t

\* two threads are inside drain invocations on one hierarchy, each with
\* bytes in its own buffer
C7_Witness ==
  /\ pc[1] = "drain" /\ pc[2] = "drain"
  /\ RootOf(args[1].logger) = RootOf(args[2].logger)
  /\ Len(buf[1]) = MaxBuf /\ Len(buf[2]) = MaxBuf

C9_AnyTwoReadsAgree ==
  \A t \in Threads : obs[t].prev # None => obs[t].last = obs[t].prev

\* C9, amended: two consecutive reads of the timestamp of one RecordInfo with
\* no set_ts between them return the same instant, whatever the clock did.
C9_ReadsAgreeWithoutSetTs ==
  \A t \in Threads :
    (obs[t].prev # None /\ ~obs[t].setBetween) => obs[t].last = obs[t].prev

\* the second read was made after the clock had moved on and returned the
\* instant of the first
C9_Witness ==
  /\ obs[1].prev # None
  /\ ~obs[1].setBetween
  /\ obs[1].lastSet = None
  /\ obs[1].last = obs[1].prev
  /\ obs[1].lastAt > obs[1].last[1]

\* C10: a ts() made after set_ts(x), with no other set_ts in between, returns
\* x, and the level and message of the RecordInfo stay those of the call.
C10_SetTsOverrides ==
  \A t \in Threads :
    /\ obs[t].afterSet # None => obs[t].afterSet = obs[t].lastSet
    /\ pc[t] = "drain" =>
         (info[t].level = args[t].lvl /\ info[t].msg = args[t].msg)

\* ts() had returned a memoized instant, set_ts gave another one, and the
\* next ts() returned that one
C10_Witness ==
  /\ obs[1].prev # None
  /\ obs[1].setBetween
  /\ obs[1].afterSet # None
  /\ obs[1].afterSet = obs[1].lastSet
  /\ obs[1].prev # obs[1].lastSet
  /\ info[1].level = "Info"

\* C11 as stated: the last timestamp read in a log call is not earlier than
\* the last one read in the thread's previous log call.
C11_LaterCallLaterTimestamp ==
  \A t \in Threads :
    (obs[t].before # None /\ obs[t].last # None)
      => obs[t].last[1] >= obs[t].before[1]

\* C11, amended: the same, when set_ts was called in neither of the two log
\* calls, so that both timestamps were read from the clock.
C11_LaterCallLaterClockTimestamp ==
  \A t \in Threads :
    (/\ obs[t].before # None
     /\ obs[t].last # None
     /\ ~obs[t].beforeSet
     /\ obs[t].lastSet = None)
      => obs[t].last[1] >= obs[t].before[1]

\* two log calls in a row read the clock, the second one after it had
\* moved on
C11_Witness ==
  /\ pc[1] = "drain"
  /\ obs[1].before # None
  /\ obs[1].last # None
  /\ ~obs[1].beforeSet
  /\ obs[1].lastSet = None
  /\ obs[1].last[1] > obs[1].before[1]

\* C12: a thread that is not itself inside a log call can always complete
\* set_drain and swap_drain at once, through any Logger, whatever drain
\* invocations other threads are in the middle of (an Arc to install being
\* available within the bound of the model).
C12_SetAndSwapNeverWait ==
  \A t \in Threads, l \in LoggerIds :
    /\ (pc[t] = "idle" /\ Len(arcs) - Len(cells) < MaxArcs)
         => /\ ENABLED SetDrain(t, l, "D1")
            /\ ENABLED SwapDrain(t, l, Len(arcs) + 1, "D1")
    /\ (pc[t] = "idle" /\ ret[t].val # 0)
         => ENABLED SwapDrain(t, l, ret[t].val, "D1")

\* set_drain has completed on a cell while a log call that got the cell's
\* earlier drain is still running it
C12_Witness ==
  \E u \in Threads :
    /\ pc[u] = "drain"
    /\ active[RootOf(args[u].logger)].kind = "set"
    /\ args[u].active.kind = "init"
    /\ inv[u].drain # Observed(args[u].logger)

\* C13: after a log call that ended with a panic of its drain, the thread's
\* buffer is empty.
C13_BufferEmptyAfterPanic ==
  \A t \in Threads : res[t].val = "panic" => Len(buf[t]) = 0

\* C16: one drain invocation at a time holds a thread's buffer: a log call
\* that the running drain makes on its own thread panics at borrow_mut and
\* invokes no drain.
C16_BufferHeldOnce ==
  \A t \in Threads :
    /\ pc[t] = "drain" => (ninv[t] = 1 /\ borrowed[t])
    /\ res[t].val = "BorrowMutError" => (pc[t] = "panicked" /\ ninv[t] = 1)

\* a drain that had written into the buffer logged on its own thread, and
\* the inner call panicked
C16_Witness ==
  \E t \in Threads :
    /\ pc[t] = "panicked"
    /\ res[t].val = "BorrowMutError"
    /\ res[t].wrote = MaxBuf
    /\ ninv[t] = 1
    /\ ~borrowed[t]

\* C14: a log call invokes the drain that is active when it begins, which is
\* none of the drains that swap_drain has handed back to a caller, and its
\* invocation stays with that snapshot whatever is installed meanwhile.
C14_LogInvokesItsSnapshot ==
  /\ [](\A t \in Threads : pc[t] = "drain" => inv[t].drain = args[t].active.arc)
  /\ [][\A t \in Threads :
          (pc[t] = "idle" /\ pc'[t] = "drain") =>
            /\ inv'[t].drain = active[RootOf(args'[t].logger)].arc
            /\ \A u \in Threads : inv'[t].drain # ret[u].val]_vars

\* one call began before a swap and still runs D1, which the swap handed
\* back, while the cell holds D2; another call began after the swap and
\* runs D2
C14_Witness ==
  \E t \in Threads, u \in Threads :
    /\ t # u
    /\ pc[t] = "drain" /\ pc[u] = "drain"
    /\ args[t].logger = args[u].logger
    /\ args[u].active.kind = "swap"
    /\ inv[u].drain = Observed(args[u].logger)
    /\ \E v \in Threads : inv[t].drain = ret[v].val
    /\ inv[t].drain # inv[u].drain

\* C15: no step changes the key-value sequence of a Logger that exists, and
\* a step that builds a Logger leaves every existing Logger and the content
\* of every drain cell as they were.
C15_ValuesNeverChange ==
  [][/\ Len(loggers') >= Len(loggers)
     /\ \A l \in LoggerIds : loggers'[l].values = loggers[l].values
     /\ Len(loggers') > Len(loggers) =>
          /\ \A l \in LoggerIds : loggers'[l] = loggers[l]
          /\ \A c \in 1..Len(cells) : cells'[c] = cells[c]]_vars

\* a parent with pairs of its own has a child with more pairs, after a drain
\* was installed and a log call through the parent is running
C15_Witness ==
  \E p \in LoggerIds, c \in LoggerIds, t \in Threads :
    /\ origin[c].how = "new" /\ origin[c].parent = p
    /\ Len(loggers[p].values) > 0
    /\ Len(loggers[c].values) > Len(loggers[p].values)
    /\ active[RootOf(p)].kind \in {"set", "swap"}
    /\ pc[t] = "drain" /\ args[t].logger = p

\* C17: Loggers of different roots have different cells; the drain observed
\* through a Logger is the one last put into its own hierarchy, by new_root
\* or by a set_drain or swap_drain through a Logger of that hierarchy; and a
\* hierarchy into which nothing was put since new_root holds, and logs to,
\* the no-op drain.
C17_HierarchiesIndependent ==
  /\ \A l1 \in LoggerIds, l2 \in LoggerIds :
       RootOf(l1) # RootOf(l2) => loggers[l1].drain # loggers[l2].drain
  /\ \A l \in LoggerIds :
       /\ Observed(l) = active[RootOf(l)].arc
       /\ active[RootOf(l)].kind = "init" => arcs[Observed(l)] = "discard"
       /\ active[RootOf(l)].kind # "init" =>
            RootOf(active[RootOf(l)].by) = RootOf(l)
  /\ \A t \in Threads :
       (pc[t] = "drain" /\ args[t].active.kind = "init")
         => arcs[inv[t].drain] = "discard"

\* two roots: a drain was set into the first and a log call runs it, while a
\* log call through the second, begun after that set_drain, runs the no-op
\* drain
C17_Witness ==
  \E t \in Threads, u \in Threads :
    /\ pc[t] = "drain" /\ pc[u] = "drain"
    /\ RootOf(args[t].logger) # RootOf(args[u].logger)
    /\ args[t].active.kind = "set"
    /\ arcs[inv[t].drain] = "D1"
    /\ args[u].active.kind = "init"
    /\ arcs[inv[u].drain] = "discard"
    /\ active[RootOf(args[u].logger)].kind = "init"

\* the Arc new_root put into cell c: the c-th no-op drain allocated
InitialArc(c) ==
  CHOOSE a \in DOMAIN arcs :
    arcs[a] = "discard" /\ Cardinality({b \in 1..a : arcs[b] = "discard"}) = c

\* the swaps of cell c, oldest first
SwapsOf(c) == SelectSeq(hist, LAMBDA h : h.cell = c)

\* how many swaps of cell c were given Arc x, and how many returned it
TimesGiven(c, x) ==
  Cardinality({i \in DOMAIN hist : hist[i].cell = c /\ hist[i].given = x})
TimesReturned(c, x) ==
  Cardinality({i \in DOMAIN hist : hist[i].cell = c /\ hist[i].val = x})

\* the swaps of each cell form one sequential history: each returned what
\* the one before it was given, the first what new_root put there, and the
\* cell holds what the last was given
SwapsLinearizable ==
  \A c \in DOMAIN cells :
    LET h == SwapsOf(c)
    IN /\ \A i \in DOMAIN h :
            h[i].val = IF i = 1 THEN InitialArc(c) ELSE h[i - 1].given
       /\ cells[c] = IF Len(h) = 0 THEN InitialArc(c) ELSE h[Len(h)].given

\* C18 as stated: the swaps are linearizable, no drain is returned by two
\* swaps, and the drains returned together with the active one are the
\* initial one and those installed.
C18_EachDrainReturnedOnce ==
  /\ SwapsLinearizable
  /\ \A i \in DOMAIN hist, j \in DOMAIN hist :
       (i # j /\ hist[i].cell = hist[j].cell) => hist[i].val # hist[j].val
  /\ \A c \in DOMAIN cells :
       LET h == SwapsOf(c)
       IN {h[i].val : i \in DOMAIN h} \cup {cells[c]}
            = {InitialArc(c)} \cup {h[i].given : i \in DOMAIN h}

\* C18, amended: the swaps are linearizable, and counted once for each time
\* it was installed (by new_root or by a swap) a drain is returned by a swap
\* that often, less once if it is the active one.
C18_EachInstallationReturnedOnce ==
  /\ SwapsLinearizable
  /\ \A c \in DOMAIN cells, x \in DOMAIN arcs :
       TimesReturned(c, x) + (IF cells[c] = x THEN 1 ELSE 0)
         = TimesGiven(c, x) + (IF InitialArc(c) = x THEN 1 ELSE 0)

\* both threads swapped the drain of one cell, and one of them put back the
\* drain a swap had handed to it
C18_Witness ==
  \E i \in DOMAIN hist, j \in DOMAIN hist :
    /\ i < j
    /\ hist[i].cell = hist[j].cell
    /\ hist[j].given = hist[i].val
    /\ Len(hist) = MaxSwaps
    /\ ret[1].val # 0 /\ ret[2].val # 0

\* C19: whichever Loggers were dropped, the root among them, the cell of the
\* Loggers that remain holds the drain last put into their hierarchy, through
\* whichever of its Loggers, and a log call through any of them invokes it.
C19_CellOutlivesDroppedLoggers ==
  /\ \A l \in LoggerIds :
       /\ Observed(l) # 0
       /\ Observed(l) = active[RootOf(l)].arc
  /\ \A t \in Threads :
       pc[t] = "drain" =>
         /\ args[t].logger \in LoggerIds
         /\ inv[t].drain = args[t].active.arc

\* the root was dropped before any drain was set; then set_drain through
\* one remaining Logger installed D1, and a log call through another one
\* runs it
C19_Witness ==
  \E d \in dropped, l1 \in LoggerIds, l2 \in LoggerIds, t \in Threads :
    /\ origin[d.logger].parent = 0
    /\ d.active.kind = "init"
    /\ l1 # l2
    /\ RootOf(l1) = d.logger /\ RootOf(l2) = d.logger
    /\ active[d.logger].kind = "set" /\ active[d.logger].by = l1
    /\ pc[t] = "drain" /\ args[t].logger = l2
    /\ arcs[inv[t].drain] = "D1"

====
